---- MODULE Spec2Model ----
(***************************************************************************)
(* Routing decision engine of the property-assistance chatbot.             *)
(*                                                                         *)
(* AgentRouter.route_request (src/agent_router.py) is modelled on real     *)
(* character strings: keyword tests are Python's substring test, the       *)
(* regular expressions are interpreted by a small matcher, and the         *)
(* decision is the if/elif chain of the source.                            *)
(***************************************************************************)
EXTENDS Integers, Sequences, FiniteSets, TLC

VARIABLES
    tenancy_keywords,   \* AgentRouter.tenancy_keywords (instance field)
    issue_keywords,     \* AgentRouter.issue_keywords   (instance field)
    pc,                 \* "idle": arguments being prepared, "routed": route_request has returned
    text,               \* argument text of route_request
    has_image,          \* argument has_image of route_request
    context,            \* argument context of route_request (the caller's object)
    nfrags,             \* number of fragments the text was assembled from
    tenancy_score,      \* local tenancy_score when route_request returned
    issue_score,        \* local issue_score when route_request returned
    result,             \* value returned by route_request
    prev,               \* the call before the last one: arguments, scores, result, and
                        \* the clarification generated between the two calls
    clarification,      \* value returned by generate_clarification_response since the last routing
    a_pc,               \* specialists: "idle": arguments being prepared, "done": a call has returned
    a_call,             \* the specialist method that returned
    a_text,             \* argument text / description of the specialist call
    a_nparts,           \* number of parts a_text was assembled from
    location,           \* argument location of the tenancy specialist
    image_data,         \* argument image_data of the issue specialist
    topic,              \* topic identified by, or passed to, the tenancy specialist
    detected,           \* detected_issues / possible_issues of the issue specialist
    dlen,               \* argument description_length of the issue confidence
    response,           \* which response text the call returned
    confidence,         \* confidence the call returned, in hundredths
    a_prev,             \* the specialist call before the last one
    m_context,          \* ConversationManager.context: its keys, with topics a reference into heap
    heap,               \* the list objects created for context['topics']
    m_history,          \* ConversationManager.message_history
    m_op,               \* the last call that changed the manager: "", "add_message", "clear_context"
    m_pc,               \* manager: "open": calls go on, "observed": a query result is held
    snap,               \* the dict a get_context call returned, as it is now
    snap0,              \* what that dict held when it was returned
    recent,             \* value returned by get_recent_messages
    recent_count,       \* argument count of that call
    analysis,           \* value returned by analyze_conversation_flow
    nclears,            \* number of clear_context calls
    c_pc,               \* conversation: "await", "said": the user has spoken, "routed"
    nturns              \* number of turns of the conversation

\* state of the two specialists and of their last call
avars == <<a_pc, a_call, a_text, a_nparts, location, image_data, topic, detected, dlen,
           response, confidence, a_prev>>

\* state of the router and of its last call
rvars == <<tenancy_keywords, issue_keywords, pc, text, has_image, context, nfrags,
           tenancy_score, issue_score, result, prev, clarification>>

\* state of the conversation manager, of its callers' results and of the conversation
cvars == <<m_context, heap, m_history, m_op, m_pc, snap, snap0, recent, recent_count,
           analysis, nclears, c_pc, nturns>>

vars == <<rvars, avars, cvars>>

-----------------------------------------------------------------------------
(* Bounds *)

\* largest number of fragments a message text is assembled from
MaxFrags == 1

\* largest number of parts a specialist's text is assembled from
MaxParts == 1

\* largest keyword-match count of an entry handed directly to the issue confidence
MaxMatches == 6

\* largest number of entries handed directly to the issue confidence
MaxIssues == 3

\* largest length of the message history in a session of manager calls
MaxMessages == 2

\* largest number of clear_context calls
MaxClears == 1

\* largest number of turns of a conversation
MaxTurns == 2

-----------------------------------------------------------------------------
(* Python strings *)

UpperChars == {"A","B","C","D","E","F","G","H","I","J","K","L","M",
               "N","O","P","Q","R","S","T","U","V","W","X","Y","Z"}

LowerOf == [c \in UpperChars |->
              CASE c = "A" -> "a" [] c = "B" -> "b" [] c = "C" -> "c" [] c = "D" -> "d"
                [] c = "E" -> "e" [] c = "F" -> "f" [] c = "G" -> "g" [] c = "H" -> "h"
                [] c = "I" -> "i" [] c = "J" -> "j" [] c = "K" -> "k" [] c = "L" -> "l"
                [] c = "M" -> "m" [] c = "N" -> "n" [] c = "O" -> "o" [] c = "P" -> "p"
                [] c = "Q" -> "q" [] c = "R" -> "r" [] c = "S" -> "s" [] c = "T" -> "t"
                [] c = "U" -> "u" [] c = "V" -> "v" [] c = "W" -> "w" [] c = "X" -> "x"
                [] c = "Y" -> "y" [] c = "Z" -> "z"]

\* the character of s at position i (1-based), as a string of length 1
CharAt(s, i) == SubSeq(s, i, i)

\* str.lower(), character by character (the string is split in halves
\* so that the recursion stays shallow)
RECURSIVE Lower(_)
Lower(s) ==
    IF Len(s) = 0 THEN ""
    ELSE IF Len(s) = 1 THEN (IF s \in UpperChars THEN LowerOf[s] ELSE s)
    ELSE LET h == Len(s) \div 2
         IN  Lower(SubSeq(s, 1, h)) \o Lower(SubSeq(s, h + 1, Len(s)))

\* Python's `sub in s` on strings
Contains(sub, s) ==
    \E i \in 1..(Len(s) - Len(sub) + 1) : SubSeq(s, i, i + Len(sub) - 1) = sub

-----------------------------------------------------------------------------
(* Regular expressions: re.search(pattern, s)                              *)
(* A pattern is a sequence of items: a literal, \s+, \w+, or an optional   *)
(* group ( ... )? of items.                                                *)

SpaceChars == {" ", "\t", "\n", "\r", "\f"}

WordChars == {"a","b","c","d","e","f","g","h","i","j","k","l","m",
              "n","o","p","q","r","s","t","u","v","w","x","y","z",
              "0","1","2","3","4","5","6","7","8","9","_"} \cup UpperChars

Lit(s) == [k |-> "lit", s |-> s]
Sp     == [k |-> "sp"]
Wd     == [k |-> "wd"]
Opt(r) == [k |-> "opt", r |-> r]

\* positions j > i such that s[i..j-1] is a non-empty run of characters of class
RunEnds(class, s, i) ==
    {j \in (i + 1)..(Len(s) + 1) : \A m \in i..(j - 1) : CharAt(s, m) \in class}

\* the positions right after a match of the items that starts at position i
RECURSIVE MatchEnds(_, _, _)
MatchEnds(items, s, i) ==
    IF Len(items) = 0 THEN {i}
    ELSE LET h == Head(items)
             first ==
               CASE h.k = "lit" ->
                      IF i + Len(h.s) - 1 <= Len(s) /\ SubSeq(s, i, i + Len(h.s) - 1) = h.s
                      THEN {i + Len(h.s)} ELSE {}
                 [] h.k = "sp"  -> RunEnds(SpaceChars, s, i)
                 [] h.k = "wd"  -> RunEnds(WordChars, s, i)
                 [] h.k = "opt" -> {i} \cup MatchEnds(h.r, s, i)
         IN  UNION {MatchEnds(Tail(items), s, j) : j \in first}

\* re.search(pattern, s) is not None: the pattern matches at some position
\* (a leading literal is located first, then the rest is matched after it)
Search(pattern, s) ==
    LET h == Head(pattern)
    IN  IF h.k = "lit"
        THEN \E i \in 1..(Len(s) - Len(h.s) + 1) :
                /\ SubSeq(s, i, i + Len(h.s) - 1) = h.s
                /\ MatchEnds(Tail(pattern), s, i + Len(h.s)) # {}
        ELSE \E i \in 1..(Len(s) + 1) : MatchEnds(pattern, s, i) # {}

tenancy_patterns == <<
    <<Lit("can"), Sp, Opt(<<Lit("my"), Sp>>), Lit("landlord")>>,
    <<Lit("tenant"), Sp, Lit("right"), Opt(<<Lit("s")>>)>>,
    <<Lit("rent"), Sp, Lit("increase")>>,
    <<Lit("security"), Sp, Lit("deposit")>>,
    <<Lit("evict"), Opt(<<Lit("ion")>>)>>,
    <<Lit("lease"), Sp, Lit("agreement")>>,
    <<Lit("notice"), Sp, Lit("period")>>,
    <<Lit("move"), Sp, Lit("out")>>,
    <<Lit("terminate"), Sp, Lit("lease")>> >>

issue_patterns == <<
    <<Lit("what"), Opt(<<Lit("'")>>), Lit("s"), Sp, Lit("wrong"), Sp, Lit("with")>>,
    <<Lit("fix"), Sp, Lit("this")>>,
    <<Lit("repair"), Sp, Lit("needed")>>,
    <<Lit("damage"), Sp, Lit("to")>>,
    <<Lit("problem"), Sp, Lit("with")>>,
    <<Lit("issue"), Sp, Lit("with")>>,
    <<Lit("broken"), Sp, Wd>>,
    <<Lit("leak"), Opt(<<Lit("ing")>>)>>,
    <<Lit("crack"), Sp, Lit("in")>> >>

-----------------------------------------------------------------------------
(* AgentRouter.__init__ *)

TenancyKeywordsInit == <<
    "landlord", "tenant", "rent", "deposit", "evict", "eviction", "lease",
    "notice", "rights", "law", "legal", "contract", "agreement", "rental",
    "tenancy", "move out", "move in", "security deposit", "rent increase",
    "repair responsibility", "maintenance", "utilities", "subletting",
    "termination", "breach", "violation", "dispute", "court" >>

IssueKeywordsInit == <<
    "damage", "broken", "crack", "leak", "leaking", "mold", "mould",
    "repair", "fix", "problem", "issue", "maintenance", "water damage",
    "electrical", "plumbing", "heating", "cooling", "hvac", "paint",
    "ceiling", "wall", "floor", "window", "door", "fixture", "stain",
    "smell", "odor", "noise", "insulation", "ventilation" >>

clarification_responses == 1..3

-----------------------------------------------------------------------------
(* route_request: scoring *)

\* variant: every occurrence of a keyword counts (text_lower.count(keyword))
RECURSIVE KeywordScore_CountOccurrences(_, _)
KeywordScore_CountOccurrences(keywords, text_lower) ==
    IF Len(keywords) = 0 THEN 0
    ELSE Cardinality({i \in 1..(Len(text_lower) - Len(Head(keywords)) + 1) :
                        SubSeq(text_lower, i, i + Len(Head(keywords)) - 1) = Head(keywords)})
         + KeywordScore_CountOccurrences(Tail(keywords), text_lower)

\* sum(1 for keyword in keywords if keyword in text_lower)
RECURSIVE KeywordScore(_, _)
KeywordScore(keywords, text_lower) ==
    IF Len(keywords) = 0 THEN 0
    ELSE (IF Contains(Head(keywords), text_lower) THEN 1 ELSE 0)
         + KeywordScore(Tail(keywords), text_lower)

\* for pattern in patterns: if re.search(pattern, text_lower): score += 2
RECURSIVE PatternScore(_, _, _)
PatternScore(patterns, text_lower, score) ==
    IF Len(patterns) = 0 THEN score
    ELSE PatternScore(Tail(patterns), text_lower,
                      IF Search(Head(patterns), text_lower) THEN score + 2 ELSE score)

\* tenancy_score after both loops
TenancyScore(kws, text_lower) ==
    PatternScore(tenancy_patterns, text_lower, KeywordScore(kws, text_lower))

\* issue_score after both loops
IssueScore(kws, text_lower) ==
    PatternScore(issue_patterns, text_lower, KeywordScore(kws, text_lower))

-----------------------------------------------------------------------------
(* The context argument: None or a dict with the keys the conversation     *)
(* manager writes (last_agent, topics)                                     *)

NoneContext == [kind |-> "None", keys |-> {}, last_agent |-> "", topics |-> <<>>]

EmptyDict == [kind |-> "dict", keys |-> {}, last_agent |-> "", topics |-> <<>>]

TopicsOnly(tp) == [kind |-> "dict", keys |-> {"topics"}, last_agent |-> "", topics |-> tp]

WithLastAgent(a, tp) ==
    [kind |-> "dict", keys |-> {"last_agent", "topics"}, last_agent |-> a, topics |-> tp]

\* the three routing categories
Categories == {"agent1", "agent2", "router"}

\* values the agent argument of ConversationManager.add_message may carry
AgentArgs == Categories \cup {"assistant"}

Contexts ==
    {NoneContext, EmptyDict, TopicsOnly(<<"rent">>)}
    \cup {WithLastAgent(a, <<>>) : a \in AgentArgs}

\* bool(context)
Truthy(ctx) == ctx.kind = "dict" /\ ctx.keys # {}

\* key in context: "True", "False", or the exception raised
KeyIn(key, ctx) ==
    IF ctx.kind = "None" THEN "TypeError"
    ELSE IF key \in ctx.keys THEN "True" ELSE "False"

\* context[key]: the value, or the exception raised
GetItem(ctx, key) ==
    IF ctx.kind = "None" THEN "TypeError"
    ELSE IF key \notin ctx.keys THEN "KeyError"
    ELSE IF key = "last_agent" THEN ctx.last_agent ELSE "topics"

Exceptions == {"TypeError", "KeyError"}

-----------------------------------------------------------------------------
(* route_request: decision *)

\* variant: a tie always asks for clarification
TieBreak_AlwaysRouter(ctx) == "router"

\* variant: `if 'last_agent' in context`, without the truth test of context
TieBreak_NoTruthTest(ctx) ==
    LET found == KeyIn("last_agent", ctx)
    IN  IF found \in Exceptions THEN found
        ELSE IF found = "True" THEN GetItem(ctx, "last_agent")
        ELSE "router"

\* if context and 'last_agent' in context: return context['last_agent'] / return 'router'
TieBreak(ctx) ==
    IF ~Truthy(ctx) THEN "router"
    ELSE LET found == KeyIn("last_agent", ctx)
         IN  IF found \in Exceptions THEN found
             ELSE IF found = "True" THEN GetItem(ctx, "last_agent")
             ELSE "router"

\* variant: the previous agent is kept whenever the context names one
Decide_StickyFirst(t_score, i_score, ctx) ==
    IF Truthy(ctx) /\ KeyIn("last_agent", ctx) = "True" THEN GetItem(ctx, "last_agent")
    ELSE IF t_score > i_score /\ t_score > 0 THEN "agent2"
    ELSE IF i_score > t_score /\ i_score > 0 THEN "agent1"
    ELSE "router"

\* variant: the tie branch lacks `and issue_score > 0`
Decide_TieAtZero(t_score, i_score, ctx) ==
    IF t_score > i_score /\ t_score > 0 THEN "agent2"
    ELSE IF i_score > t_score /\ i_score > 0 THEN "agent1"
    ELSE IF i_score = t_score THEN
        (IF Truthy(ctx) /\ KeyIn("last_agent", ctx) = "True"
         THEN GetItem(ctx, "last_agent") ELSE "router")
    ELSE "router"

\* variant: the two comparisons return each other's agent
Decide_Swapped(t_score, i_score, ctx) ==
    IF t_score > i_score /\ t_score > 0 THEN "agent1"
    ELSE IF i_score > t_score /\ i_score > 0 THEN "agent2"
    ELSE IF i_score = t_score /\ i_score > 0 THEN
        (IF Truthy(ctx) /\ KeyIn("last_agent", ctx) = "True"
         THEN GetItem(ctx, "last_agent") ELSE "router")
    ELSE "router"

\* the if/elif chain on the two scores
Decide(t_score, i_score, ctx) ==
    IF t_score > i_score /\ t_score > 0 THEN "agent2"
    ELSE IF i_score > t_score /\ i_score > 0 THEN "agent1"
    ELSE IF i_score = t_score /\ i_score > 0 THEN TieBreak(ctx)
    ELSE "router"

\* value of a local variable on a path that never assigns it
NoScore == -1

\* variant: the image test comes after the text analysis, as a fallback
RouteRequest_ImageLast(t_kws, i_kws, t, img, ctx) ==
    LET text_lower == Lower(t)
        ts == PatternScore(tenancy_patterns, text_lower, KeywordScore(t_kws, text_lower))
        is == PatternScore(issue_patterns, text_lower, KeywordScore(i_kws, text_lower))
        d  == IF ts > is /\ ts > 0 THEN "agent2"
              ELSE IF is > ts /\ is > 0 THEN "agent1"
              ELSE IF img THEN "agent1"
              ELSE IF is = ts /\ is > 0 /\ Truthy(ctx) /\ KeyIn("last_agent", ctx) = "True"
                   THEN GetItem(ctx, "last_agent")
              ELSE "router"
    IN  IF img THEN [tenancy_score |-> NoScore, issue_score |-> NoScore, result |-> d]
        ELSE [tenancy_score |-> ts, issue_score |-> is, result |-> d]

\* the call: the locals when it returns, and the value returned
RouteRequest(t_kws, i_kws, t, img, ctx) ==
    IF img
    THEN [tenancy_score |-> NoScore, issue_score |-> NoScore, result |-> "agent1"]
    ELSE LET text_lower == Lower(t)
             ts == TenancyScore(t_kws, text_lower)
             is == IssueScore(i_kws, text_lower)
         IN  [tenancy_score |-> ts, issue_score |-> is, result |-> Decide(ts, is, ctx)]

-----------------------------------------------------------------------------
(* generate_clarification_response *)

AnyWord(words, text_lower) == \E w \in words : Contains(w, text_lower)

Suggestions(t) ==
    LET tl == Lower(t)
        s1 == IF AnyWord({"photo", "image", "picture", "show", "look"}, tl)
              THEN <<"upload">> ELSE <<>>
        s2 == IF AnyWord({"question", "ask", "know", "tell"}, tl)
              THEN <<"ask">> ELSE <<>>
    IN  IF Len(s1 \o s2) = 0 THEN <<"issues", "tenancy">> ELSE s1 \o s2

NoClarification == [base |-> 0, suggestions |-> <<>>, confidence |-> 0]

-----------------------------------------------------------------------------
(* Messages *)

Fragments == {
    "Can my landlord evict me without notice?",
    "What's wrong with this",
    "maintenance",
    "show me",
    "rent",
    "floor",
    "LEAK leak",
    "broken\twindow" }

NoPrev == [valid |-> FALSE, text |-> "", has_image |-> FALSE, context |-> NoneContext,
           tenancy_score |-> NoScore, issue_score |-> NoScore, result |-> "",
           clarification |-> NoClarification]

LastCall == [valid |-> TRUE, text |-> text, has_image |-> has_image, context |-> context,
             tenancy_score |-> tenancy_score, issue_score |-> issue_score, result |-> result,
             clarification |-> clarification]

Range(seq) == {seq[i] : i \in 1..Len(seq)}

\* texts handed to the specialists
Parts == {
    "evict",
    "eviction",
    "evict eviction remove",
    "terminate lease",
    "can they evict me over the security deposit",
    "hello",
    "leak",
    "wet water stain leak near crack hole in foundation wall ceiling",
    "there is extensive mold everywhere",
    "a small noticeable stain",
    "a tiny mark",
    "Extensive VISIBLE Mold",
    "leak crack mold outlet" }

\* values of the location argument besides None
Locations == {"", "California", "New York", "Austin, Texas", "Berlin"}

\* values of the description_length argument in a direct call
DescriptionLengths == {0, 9, 10, 50, 51}

\* no call has returned a confidence
NoConfidence == -1

-----------------------------------------------------------------------------
(* Specialists: common helpers                                             *)
(* Confidences are kept in hundredths (0.8 is 80): every constant of the   *)
(* source is a multiple of 0.05, and the float results differ from these   *)
(* values by rounding errors below 1e-15 that change no comparison.        *)

Min(a, b) == IF a <= b THEN a ELSE b

Max(a, b) == IF a >= b THEN a ELSE b

\* list.sort(key=lambda x: x[f], reverse=True): descending and stable, equal
\* keys keep the order they had
RECURSIVE SortDesc(_, _)
SortDesc(s, f) ==
    IF Len(s) = 0 THEN <<>>
    ELSE LET rest == SortDesc(SubSeq(s, 1, Len(s) - 1), f)
             e    == s[Len(s)]
             n    == Cardinality({i \in 1..Len(rest) : rest[i][f] >= e[f]})
         IN  SubSeq(rest, 1, n) \o <<e>> \o SubSeq(rest, n + 1, Len(rest))

\* Python None as the value of an optional string
NoneStr == [none |-> TRUE, s |-> ""]

Str(s) == [none |-> FALSE, s |-> s]

\* bool(x) of an optional string
StrTruthy(x) == ~x.none /\ Len(x.s) > 0

-----------------------------------------------------------------------------
(* TenancyFAQAgent *)

legal_database == <<
    [topic |-> "eviction",
     keywords |-> <<"evict", "eviction", "kick out", "remove", "terminate lease">>],
    [topic |-> "rent_increase",
     keywords |-> <<"rent increase", "raise rent", "rent hike", "increase rent">>],
    [topic |-> "security_deposit",
     keywords |-> <<"deposit", "security deposit", "last month", "damage deposit">>],
    [topic |-> "repairs_maintenance",
     keywords |-> <<"repair", "maintenance", "fix", "broken", "landlord responsibility">>],
    [topic |-> "lease_termination",
     keywords |-> <<"move out", "terminate lease", "break lease", "early termination">>],
    [topic |-> "tenant_rights",
     keywords |-> <<"tenant rights", "rights", "what can landlord do", "illegal">>] >>

\* keys of location_specific_notes
location_specific_notes == <<"california", "new_york", "texas", "florida">>

\* the return value None of _identify_topic
NoTopic == "None"

\* the entries of a database whose key is the topic
Lookup(database, key) == database[CHOOSE i \in 1..Len(database) : database[i].topic = key]

\* topic_scores: the topics with score > 0, in the order of the database
RECURSIVE TopicScores(_, _)
TopicScores(database, text_lower) ==
    IF Len(database) = 0 THEN <<>>
    ELSE LET info  == Head(database)
             score == KeywordScore(info.keywords, text_lower)
         IN  (IF score > 0 THEN <<[topic |-> info.topic, score |-> score]>> ELSE <<>>)
             \o TopicScores(Tail(database), text_lower)

\* variant: the last of several maximal entries wins
RECURSIVE PyMax_LastWins(_, _, _)
PyMax_LastWins(items, i, best) ==
    IF i > Len(items) THEN best
    ELSE PyMax_LastWins(items, i + 1, IF items[i].score >= best.score THEN items[i] ELSE best)

\* max(topic_scores, key=topic_scores.get), scanning from entry i: the first
\* of several maximal entries is kept
RECURSIVE PyMax(_, _, _)
PyMax(items, i, best) ==
    IF i > Len(items) THEN best
    ELSE PyMax(items, i + 1, IF items[i].score > best.score THEN items[i] ELSE best)

\* variant: a topic needs at least two keyword matches
IdentifyTopic_NeedsTwo(t) ==
    LET topic_scores == SelectSeq(TopicScores(legal_database, Lower(t)), LAMBDA e : e.score > 1)
    IN  IF Len(topic_scores) > 0 THEN PyMax(topic_scores, 2, topic_scores[1]).topic
        ELSE NoTopic

\* TenancyFAQAgent._identify_topic(text)
IdentifyTopic(t) ==
    LET topic_scores == TopicScores(legal_database, Lower(t))
    IN  IF Len(topic_scores) > 0 THEN PyMax(topic_scores, 2, topic_scores[1]).topic
        ELSE NoTopic

\* sum(1 for keyword in topic_info['keywords'] if keyword.lower() in text.lower())
RECURSIVE KeywordMatches(_, _)
KeywordMatches(keywords, t) ==
    IF Len(keywords) = 0 THEN 0
    ELSE (IF Contains(Lower(Head(keywords)), Lower(t)) THEN 1 ELSE 0)
         + KeywordMatches(Tail(keywords), t)

\* any(loc in location.lower() for loc in self.location_specific_notes.keys())
KnownLocation(loc) ==
    \E i \in 1..Len(location_specific_notes) :
        Contains(location_specific_notes[i], Lower(loc.s))

\* variant: no final clamp, and a clear topic adds 0.2
TenancyConfidence_Unclamped(t, tp, loc) ==
    LET keyword_matches == KeywordMatches(Lookup(legal_database, tp).keywords, t)
        c1 == IF keyword_matches > 2 THEN 80 + 20
              ELSE IF keyword_matches = 1 THEN 80 - 10
              ELSE 80
    IN  IF StrTruthy(loc) THEN (IF KnownLocation(loc) THEN c1 + 5 ELSE c1) ELSE c1 - 5

\* variant: the keyword adjustment tests `>= 2` and `== 1` with the signs exchanged
TenancyConfidence_SignsExchanged(t, tp, loc) ==
    LET keyword_matches == KeywordMatches(Lookup(legal_database, tp).keywords, t)
        c1 == IF keyword_matches > 2 THEN 80 - 10
              ELSE IF keyword_matches = 1 THEN 80 + 10
              ELSE 80
        c2 == IF StrTruthy(loc) THEN (IF KnownLocation(loc) THEN c1 + 5 ELSE c1) ELSE c1 - 5
    IN  Min(95, Max(60, c2))

\* TenancyFAQAgent._calculate_confidence(text, topic, location)
TenancyConfidence(t, tp, loc) ==
    LET keyword_matches == KeywordMatches(Lookup(legal_database, tp).keywords, t)
        c1 == IF keyword_matches > 2 THEN 80 + 10
              ELSE IF keyword_matches = 1 THEN 80 - 10
              ELSE 80
        c2 == IF StrTruthy(loc) THEN (IF KnownLocation(loc) THEN c1 + 5 ELSE c1) ELSE c1 - 5
    IN  Min(95, Max(60, c2))

\* TenancyFAQAgent.process_request(text, location)
TenancyProcessRequest(t, loc) ==
    LET tp == IdentifyTopic(t)
    IN  IF tp # NoTopic
        THEN [response |-> "topic_response", topic |-> tp,
              confidence |-> TenancyConfidence(t, tp, loc)]
        ELSE [response |-> "general_guidance", topic |-> NoTopic, confidence |-> 60]

-----------------------------------------------------------------------------
(* IssueDetectionAgent *)

issue_database == <<
    [topic |-> "water_damage",
     keywords |-> <<"water", "leak", "stain", "wet", "damp", "moisture">>],
    [topic |-> "structural_damage",
     keywords |-> <<"crack", "hole", "foundation", "wall", "ceiling">>],
    [topic |-> "mold_growth",
     keywords |-> <<"mold", "mould", "fungus", "black spots", "green">>],
    [topic |-> "electrical_issues",
     keywords |-> <<"electrical", "outlet", "switch", "wiring", "light">>],
    [topic |-> "plumbing_issues",
     keywords |-> <<"pipe", "drain", "toilet", "faucet", "sink">>],
    [topic |-> "cosmetic_damage",
     keywords |-> <<"paint", "scratch", "dent", "scuff", "wear">>] >>

severe_indicators == {"extensive", "large", "major", "severe", "bad", "terrible", "everywhere"}

moderate_indicators == {"noticeable", "visible", "concerning", "growing", "spreading"}

\* variant: the moderate tier is tested first
DetermineSeverity_ModerateFirst(description, issue_type) ==
    IF AnyWord(moderate_indicators, description) THEN "moderate"
    ELSE IF AnyWord(severe_indicators, description) THEN "severe"
    ELSE "minor"

\* IssueDetectionAgent._determine_severity(description, issue_type)
DetermineSeverity(description, issue_type) ==
    IF AnyWord(severe_indicators, description) THEN "severe"
    ELSE IF AnyWord(moderate_indicators, description) THEN "moderate"
    ELSE "minor"

\* the loop of _simulate_image_analysis: one entry per issue type that matches
RECURSIVE DetectedIssues(_, _)
DetectedIssues(database, description_lower) ==
    IF Len(database) = 0 THEN <<>>
    ELSE LET info == Head(database)
             keyword_matches == KeywordScore(info.keywords, description_lower)
         IN  (IF keyword_matches > 0
              THEN <<[type |-> info.topic,
                      confidence |-> Min(95, 60 + keyword_matches * 10),
                      severity |-> DetermineSeverity(description_lower, info.topic),
                      keywords_matched |-> keyword_matches]>>
              ELSE <<>>)
             \o DetectedIssues(Tail(database), description_lower)

\* variant: the list is returned whole
Top3_All(s) == s

\* detected_issues[:3]
Top3(s) == SubSeq(s, 1, Min(3, Len(s)))

\* IssueDetectionAgent._simulate_image_analysis(description, image_data)
SimulateImageAnalysis(description) ==
    Top3(SortDesc(DetectedIssues(issue_database, Lower(description)), "confidence"))

\* the loop of _analyze_text_description: one entry per issue type that matches
RECURSIVE PossibleIssues(_, _)
PossibleIssues(database, text_lower) ==
    IF Len(database) = 0 THEN <<>>
    ELSE LET info == Head(database)
             keyword_matches == KeywordScore(info.keywords, text_lower)
         IN  (IF keyword_matches > 0
              THEN <<[type |-> info.topic,
                      matches |-> keyword_matches,
                      severity |-> DetermineSeverity(text_lower, info.topic)]>>
              ELSE <<>>)
             \o PossibleIssues(Tail(database), text_lower)

\* variant: no final clamp
IssueConfidence_Unclamped(detected_issues, description_length) ==
    IF Len(detected_issues) = 0 THEN 30
    ELSE LET c0 == detected_issues[1].confidence
             c1 == IF description_length > 50 THEN c0 + 10
                   ELSE IF description_length < 10 THEN c0 - 10
                   ELSE c0
         IN  IF Len(detected_issues) > 1 THEN c1 + 5 ELSE c1

\* variant: a long description lowers the confidence, a short one raises it
IssueConfidence_LengthExchanged(detected_issues, description_length) ==
    IF Len(detected_issues) = 0 THEN 30
    ELSE LET c0 == detected_issues[1].confidence
             c1 == IF description_length > 50 THEN c0 - 10
                   ELSE IF description_length < 10 THEN c0 + 10
                   ELSE c0
             c2 == IF Len(detected_issues) > 1 THEN c1 + 5 ELSE c1
         IN  Min(95, Max(50, c2))

\* IssueDetectionAgent._calculate_confidence(detected_issues, description_length)
IssueConfidence(detected_issues, description_length) ==
    IF Len(detected_issues) = 0 THEN 30
    ELSE LET c0 == detected_issues[1].confidence
             c1 == IF description_length > 50 THEN c0 + 10
                   ELSE IF description_length < 10 THEN c0 - 10
                   ELSE c0
             c2 == IF Len(detected_issues) > 1 THEN c1 + 5 ELSE c1
         IN  Min(95, Max(50, c2))

\* variant: the test `if not detected_issues` is missing
AnalyzeImageWithContext_NoEmptyCheck(description) ==
    LET detected_issues == SimulateImageAnalysis(description)
    IN  [response |-> "analysis_report", detected |-> detected_issues,
         confidence |-> IssueConfidence(detected_issues, Len(description))]

\* IssueDetectionAgent._analyze_image_with_context(description, image_data, context)
AnalyzeImageWithContext(description) ==
    LET detected_issues == SimulateImageAnalysis(description)
    IN  IF Len(detected_issues) = 0
        THEN [response |-> "no_issues", detected |-> detected_issues, confidence |-> 60]
        ELSE [response |-> "analysis_report", detected |-> detected_issues,
              confidence |-> IssueConfidence(detected_issues, Len(description))]

\* variant: the fallback confidences of the two text-only branches are exchanged
AnalyzeTextDescription_Exchanged(t) ==
    LET possible_issues == PossibleIssues(issue_database, Lower(t))
    IN  IF Len(possible_issues) > 0
        THEN [response |-> "text_analysis", detected |-> SortDesc(possible_issues, "matches"),
              confidence |-> 50]
        ELSE [response |-> "general_guidance", detected |-> possible_issues, confidence |-> 70]

\* IssueDetectionAgent._analyze_text_description(text, context)
AnalyzeTextDescription(t) ==
    LET possible_issues == PossibleIssues(issue_database, Lower(t))
    IN  IF Len(possible_issues) > 0
        THEN [response |-> "text_analysis", detected |-> SortDesc(possible_issues, "matches"),
              confidence |-> 70]
        ELSE [response |-> "general_guidance", detected |-> possible_issues, confidence |-> 50]

\* image_data: None, b'' or the bytes of an image; bool(image_data)
ImageValues == {"None", "empty", "bytes"}

\* IssueDetectionAgent.process_request(text, image_data, context)
IssueProcessRequest(t, img) ==
    IF img = "bytes" THEN AnalyzeImageWithContext(t) ELSE AnalyzeTextDescription(t)

-----------------------------------------------------------------------------
(* ConversationManager                                                     *)
(* context is a dict whose value for 'topics' is a list object: the dict   *)
(* is modelled by its keys and the list by a reference into heap, so that  *)
(* two dicts can hold the same list. Timestamps and metadata of messages   *)
(* are not modelled.                                                       *)

\* self.context = {}
EmptyMapping == [has_last_agent |-> FALSE, last_agent |-> "", topics |-> 0]

\* the list `topics` of _update_context
tracked_topics == <<"eviction", "rent", "deposit", "repair", "lease", "damage", "mold", "leak">>

\* the dict add_message builds
Message(type, content, agent) == [type |-> type, content |-> content, agent |-> agent]

\* variant: a topic is appended without the test `topic not in self.context['topics']`
RECURSIVE AppendTopics_NoMembershipTest(_, _, _)
AppendTopics_NoMembershipTest(lst, topics, content_lower) ==
    IF Len(topics) = 0 THEN lst
    ELSE LET tp   == Head(topics)
             lst1 == IF Contains(tp, content_lower) THEN Append(lst, tp) ELSE lst
         IN  AppendTopics_NoMembershipTest(lst1, Tail(topics), content_lower)

\* the loop `for topic in topics` of _update_context on the list lst
RECURSIVE AppendTopics(_, _, _)
AppendTopics(lst, topics, content_lower) ==
    IF Len(topics) = 0 THEN lst
    ELSE LET tp   == Head(topics)
             lst1 == IF Contains(tp, content_lower) /\ tp \notin Range(lst)
                     THEN Append(lst, tp) ELSE lst
         IN  AppendTopics(lst1, Tail(topics), content_lower)

\* variant: last_agent is written whatever the agent of the message is
UpdateContext_AlwaysSetsAgent(ctx, hp, message) ==
    LET c1  == [ctx EXCEPT !.has_last_agent = TRUE, !.last_agent = message.agent.s]
        hp1 == IF c1.topics = 0 THEN Append(hp, <<>>) ELSE hp
        c2  == IF c1.topics = 0 THEN [c1 EXCEPT !.topics = Len(hp1)] ELSE c1
        lst == AppendTopics(hp1[c2.topics], tracked_topics, Lower(message.content))
    IN  [context |-> c2, heap |-> [hp1 EXCEPT ![c2.topics] = lst]]

\* ConversationManager._update_context(message), on the context ctx and the heap hp
UpdateContext(ctx, hp, message) ==
    LET c1  == IF StrTruthy(message.agent)
               THEN [ctx EXCEPT !.has_last_agent = TRUE, !.last_agent = message.agent.s]
               ELSE ctx
        hp1 == IF c1.topics = 0 THEN Append(hp, <<>>) ELSE hp
        c2  == IF c1.topics = 0 THEN [c1 EXCEPT !.topics = Len(hp1)] ELSE c1
        lst == AppendTopics(hp1[c2.topics], tracked_topics, Lower(message.content))
    IN  [context |-> c2, heap |-> [hp1 EXCEPT ![c2.topics] = lst]]

\* ConversationManager.get_context(): self.context.copy() copies the keys and
\* their values, the reference to the list among them
GetContext(ctx) == ctx

\* what a dict holds: its keys and the present contents of its list
View(ctx, hp) ==
    [has_last_agent |-> ctx.has_last_agent,
     last_agent |-> ctx.last_agent,
     has_topics |-> ctx.topics # 0,
     topics |-> IF ctx.topics = 0 THEN <<>> ELSE hp[ctx.topics]]

\* the dict as the context argument of route_request
AsContextArgument(ctx, hp) ==
    [kind |-> "dict",
     keys |-> (IF ctx.has_last_agent THEN {"last_agent"} ELSE {})
              \cup (IF ctx.topics # 0 THEN {"topics"} ELSE {}),
     last_agent |-> ctx.last_agent,
     topics |-> IF ctx.topics = 0 THEN <<>> ELSE hp[ctx.topics]]

\* the Python slice s[i:]
SliceFrom(s, i) ==
    LET n     == Len(s)
        start == IF i < 0 THEN Max(n + i, 0) ELSE Min(i, n)
    IN  SubSeq(s, start + 1, n)

\* ConversationManager.get_recent_messages(count): self.message_history[-count:]
RecentMessages(history, count) == SliceFrom(history, 0 - count)

-----------------------------------------------------------------------------
(* AgentRouter.analyze_conversation_flow                                   *)
(* agent_usage is a dict: a sequence of entries in insertion order; the    *)
(* count of an entry is its field score.                                   *)

agent_usage_init ==
    <<[agent |-> "agent1", score |-> 0], [agent |-> "agent2", score |-> 0],
      [agent |-> "router", score |-> 0]>>

\* agent_usage[a] = agent_usage.get(a, 0) + 1
Bump(usage, a) ==
    IF \E i \in 1..Len(usage) : usage[i].agent = a
    THEN [i \in 1..Len(usage) |->
            IF usage[i].agent = a THEN [usage[i] EXCEPT !.score = @ + 1] ELSE usage[i]]
    ELSE Append(usage, [agent |-> a, score |-> 1])

\* variant: the test msg.get('type') == 'bot' is missing
RECURSIVE AgentUsage_AnyType(_, _)
AgentUsage_AnyType(messages, usage) ==
    IF Len(messages) = 0 THEN usage
    ELSE LET msg == Head(messages)
         IN  AgentUsage_AnyType(Tail(messages),
                 IF StrTruthy(msg.agent) THEN Bump(usage, msg.agent.s) ELSE usage)

\* the loop `for msg in messages`
RECURSIVE AgentUsage(_, _)
AgentUsage(messages, usage) ==
    IF Len(messages) = 0 THEN usage
    ELSE LET msg == Head(messages)
         IN  AgentUsage(Tail(messages),
                 IF msg.type = "bot" /\ StrTruthy(msg.agent) THEN Bump(usage, msg.agent.s)
                 ELSE usage)

\* agent_usage[a]
UsageOf(usage, a) == usage[CHOOSE i \in 1..Len(usage) : usage[i].agent = a].score

\* AgentRouter._determine_conversation_type(agent_usage)
DetermineConversationType(usage) ==
    IF UsageOf(usage, "agent1") > UsageOf(usage, "agent2") THEN "issue_focused"
    ELSE IF UsageOf(usage, "agent2") > UsageOf(usage, "agent1") THEN "tenancy_focused"
    ELSE "mixed"

\* AgentRouter.analyze_conversation_flow(messages)
AnalyzeConversationFlow(messages) ==
    LET usage == AgentUsage(messages, agent_usage_init)
    IN  [agent_usage |-> usage,
         total_messages |-> Len(messages),
         dominant_agent |-> PyMax(usage, 2, usage[1]).agent,
         conversation_type |-> DetermineConversationType(usage)]

\* no get_context call has returned
NoSnap == [taken |-> FALSE, ctx |-> EmptyMapping]

\* no get_recent_messages call has returned
NoCount == -1

\* no analyze_conversation_flow call has returned
NoAnalysis ==
    [agent_usage |-> <<>>, total_messages |-> -1, dominant_agent |-> "",
     conversation_type |-> ""]

\* no specialist call before the last one
NoCall == [valid |-> FALSE, call |-> "", text |-> "", location |-> NoneStr,
           topic |-> NoTopic, detected |-> <<>>, dlen |-> 0, confidence |-> NoConfidence]

-----------------------------------------------------------------------------
(* State machine *)

Init ==
    /\ tenancy_keywords = TenancyKeywordsInit
    /\ issue_keywords = IssueKeywordsInit
    /\ pc = "idle"
    /\ text = ""
    /\ has_image = FALSE
    /\ context = NoneContext
    /\ nfrags = 0
    /\ tenancy_score = NoScore
    /\ issue_score = NoScore
    /\ result = ""
    /\ prev = NoPrev
    /\ clarification = NoClarification
    /\ a_pc = "idle"
    /\ a_call = ""
    /\ a_text = ""
    /\ a_nparts = 0
    /\ location = NoneStr
    /\ image_data = "None"
    /\ topic = NoTopic
    /\ detected = <<>>
    /\ dlen = 0
    /\ response = ""
    /\ confidence = NoConfidence
    /\ a_prev = NoCall
    /\ m_context = EmptyMapping
    /\ heap = <<>>
    /\ m_history = <<>>
    /\ m_op = ""
    /\ m_pc = "open"
    /\ snap = NoSnap
    /\ snap0 = View(EmptyMapping, <<>>)
    /\ recent = <<>>
    /\ recent_count = NoCount
    /\ analysis = NoAnalysis
    /\ nclears = 0
    /\ c_pc = "await"
    /\ nturns = 0

\* the user extends the message text
Compose(f) ==
    /\ pc = "idle"
    /\ nfrags < MaxFrags
    /\ text' = text \o f
    /\ nfrags' = nfrags + 1
    /\ UNCHANGED avars
    /\ UNCHANGED cvars
    /\ UNCHANGED <<tenancy_keywords, issue_keywords, pc, has_image, context,
                   tenancy_score, issue_score, result, prev, clarification>>

\* the caller passes a context instead of the default None
SetContext(c) ==
    /\ pc = "idle"
    /\ context = NoneContext
    /\ c # NoneContext
    /\ context' = c
    /\ UNCHANGED avars
    /\ UNCHANGED cvars
    /\ UNCHANGED <<tenancy_keywords, issue_keywords, pc, text, has_image, nfrags,
                   tenancy_score, issue_score, result, prev, clarification>>

\* the user attaches an image to the message
UploadImage ==
    /\ pc = "idle"
    /\ ~has_image
    /\ has_image' = TRUE
    /\ UNCHANGED avars
    /\ UNCHANGED cvars
    /\ UNCHANGED <<tenancy_keywords, issue_keywords, pc, text, context, nfrags,
                   tenancy_score, issue_score, result, prev, clarification>>

\* variant: the router records its decision in the context it was given
route_request_WritesContext ==
    /\ pc = "idle" \/ (pc = "routed" /\ ~prev.valid)
    /\ LET r == RouteRequest(tenancy_keywords, issue_keywords, text, has_image, context)
       IN  /\ tenancy_score' = r.tenancy_score
           /\ issue_score' = r.issue_score
           /\ result' = r.result
           /\ context' = IF context.kind = "dict"
                         THEN [context EXCEPT !.keys = @ \cup {"last_agent"},
                                              !.last_agent = r.result]
                         ELSE context
    /\ prev' = IF pc = "idle" THEN NoPrev ELSE LastCall
    /\ pc' = "routed"
    /\ clarification' = NoClarification
    /\ UNCHANGED avars
    /\ UNCHANGED cvars
    /\ UNCHANGED <<tenancy_keywords, issue_keywords, text, has_image, nfrags>>

\* variant: a non-zero tie is broken by random.choice
route_request_RandomTie ==
    /\ pc = "idle" \/ (pc = "routed" /\ ~prev.valid)
    /\ LET r == RouteRequest(tenancy_keywords, issue_keywords, text, has_image, context)
       IN  /\ tenancy_score' = r.tenancy_score
           /\ issue_score' = r.issue_score
           /\ IF ~has_image /\ r.tenancy_score = r.issue_score /\ r.issue_score > 0
              THEN result' \in {"agent1", "agent2"}
              ELSE result' = r.result
    /\ prev' = IF pc = "idle" THEN NoPrev ELSE LastCall
    /\ pc' = "routed"
    /\ clarification' = NoClarification
    /\ UNCHANGED avars
    /\ UNCHANGED cvars
    /\ UNCHANGED <<tenancy_keywords, issue_keywords, text, has_image, context, nfrags>>

\* AgentRouter.route_request(text, has_image, context); a call in state "routed"
\* repeats the call with the same arguments
route_request ==
    /\ pc = "idle" \/ (pc = "routed" /\ ~prev.valid)
    /\ LET r == RouteRequest(tenancy_keywords, issue_keywords, text, has_image, context)
       IN  /\ tenancy_score' = r.tenancy_score
           /\ issue_score' = r.issue_score
           /\ result' = r.result
    /\ prev' = IF pc = "idle" THEN NoPrev ELSE LastCall
    /\ pc' = "routed"
    /\ clarification' = NoClarification
    /\ UNCHANGED avars
    /\ UNCHANGED cvars
    /\ UNCHANGED <<tenancy_keywords, issue_keywords, text, has_image, context, nfrags>>

\* the same request again, with one more issue keyword that the text did not contain
route_request_more(k) ==
    /\ pc = "routed"
    /\ ~has_image
    /\ ~prev.valid
    /\ clarification = NoClarification
    /\ k \in Range(issue_keywords)
    /\ ~Contains(k, Lower(text))
    /\ text' = (IF text = "" THEN k ELSE text \o " " \o k)
    /\ LET r == RouteRequest(tenancy_keywords, issue_keywords, text', has_image, context)
       IN  /\ tenancy_score' = r.tenancy_score
           /\ issue_score' = r.issue_score
           /\ result' = r.result
    /\ prev' = LastCall
    /\ clarification' = NoClarification
    /\ UNCHANGED avars
    /\ UNCHANGED cvars
    /\ UNCHANGED <<tenancy_keywords, issue_keywords, pc, has_image, context, nfrags>>

\* AgentRouter.generate_clarification_response(text, context), called when routing is unclear
generate_clarification_response ==
    /\ pc = "routed"
    /\ result = "router"
    /\ clarification = NoClarification
    /\ \E base \in clarification_responses :
         clarification' = [base |-> base, suggestions |-> Suggestions(text), confidence |-> 100]
    /\ UNCHANGED avars
    /\ UNCHANGED cvars
    /\ UNCHANGED <<tenancy_keywords, issue_keywords, pc, text, has_image, context, nfrags,
                   tenancy_score, issue_score, result, prev>>

\* the turn is over; the next request starts from a fresh message
NewRequest ==
    /\ pc = "routed"
    /\ pc' = "idle"
    /\ text' = ""
    /\ has_image' = FALSE
    /\ context' = NoneContext
    /\ nfrags' = 0
    /\ tenancy_score' = NoScore
    /\ issue_score' = NoScore
    /\ result' = ""
    /\ prev' = NoPrev
    /\ clarification' = NoClarification
    /\ UNCHANGED avars
    /\ UNCHANGED cvars
    /\ UNCHANGED <<tenancy_keywords, issue_keywords>>

Next ==
    \/ \E f \in Fragments : Compose(f)
    \/ \E c \in Contexts : SetContext(c)
    \/ UploadImage
    \/ route_request
    \/ \E k \in Range(IssueKeywordsInit) : route_request_more(k)
    \/ generate_clarification_response
    \/ NewRequest

Spec == Init /\ [][Next]_vars

-----------------------------------------------------------------------------
(* State machine of the specialists *)

LastAgentCall == [valid |-> TRUE, call |-> a_call, text |-> a_text, location |-> location,
                  topic |-> topic, detected |-> detected, dlen |-> dlen,
                  confidence |-> confidence]

\* an entry of detected_issues as _simulate_image_analysis builds it for the
\* i-th issue type with m matching keywords
IssueEntry(i, m) ==
    [type |-> issue_database[i].topic, confidence |-> Min(95, 60 + m * 10),
     severity |-> "minor", keywords_matched |-> m]

\* the lists handed directly to the issue confidence
IssueLists ==
    UNION {{[i \in 1..n |-> IssueEntry(i, f[i])] : f \in [1..n -> 1..MaxMatches]}
           : n \in 0..MaxIssues}

\* The caller writes the text of the request.
WriteText(p) ==
    /\ a_pc = "idle"
    /\ a_nparts < MaxParts
    /\ location = NoneStr
    /\ image_data = "None"
    /\ a_text' = (IF a_text = "" THEN p ELSE a_text \o " " \o p)
    /\ a_nparts' = a_nparts + 1
    /\ UNCHANGED <<a_pc, a_call, location, image_data, topic, detected, dlen, response,
                   confidence, a_prev>>
    /\ UNCHANGED rvars
    /\ UNCHANGED cvars

\* The caller supplies a location.
SetLocation(l) ==
    /\ a_pc = "idle"
    /\ location = NoneStr
    /\ image_data = "None"
    /\ location' = Str(l)
    /\ UNCHANGED <<a_pc, a_call, a_text, a_nparts, image_data, topic, detected, dlen,
                   response, confidence, a_prev>>
    /\ UNCHANGED rvars
    /\ UNCHANGED cvars

\* The caller supplies image_data.
SetImage(img) ==
    /\ a_pc = "idle"
    /\ location = NoneStr
    /\ image_data = "None"
    /\ img # "None"
    /\ image_data' = img
    /\ UNCHANGED <<a_pc, a_call, a_text, a_nparts, location, topic, detected, dlen,
                   response, confidence, a_prev>>
    /\ UNCHANGED rvars
    /\ UNCHANGED cvars

\* TenancyFAQAgent.process_request(text, location)
tenancy_process_request ==
    /\ a_pc = "idle"
    /\ image_data = "None"
    /\ LET r == TenancyProcessRequest(a_text, location)
       IN  /\ topic' = r.topic
           /\ response' = r.response
           /\ confidence' = r.confidence
    /\ a_pc' = "done"
    /\ a_call' = "tenancy.process_request"
    /\ UNCHANGED <<a_text, a_nparts, location, image_data, detected, dlen, a_prev>>
    /\ UNCHANGED rvars
    /\ UNCHANGED cvars

\* TenancyFAQAgent._calculate_confidence(text, topic, location)
tenancy_calculate_confidence(tp) ==
    /\ a_pc = "idle"
    /\ image_data = "None"
    /\ topic' = tp
    /\ response' = ""
    /\ confidence' = TenancyConfidence(a_text, tp, location)
    /\ a_pc' = "done"
    /\ a_call' = "tenancy._calculate_confidence"
    /\ UNCHANGED <<a_text, a_nparts, location, image_data, detected, dlen, a_prev>>
    /\ UNCHANGED rvars
    /\ UNCHANGED cvars

\* The same call again after the text gained keyword k of the topic.
tenancy_calculate_confidence_more(k) ==
    /\ a_pc = "done"
    /\ a_call = "tenancy._calculate_confidence"
    /\ ~a_prev.valid
    /\ k \in Range(Lookup(legal_database, topic).keywords)
    /\ ~Contains(k, Lower(a_text))
    /\ a_prev' = LastAgentCall
    /\ a_text' = (IF a_text = "" THEN k ELSE a_text \o " " \o k)
    /\ confidence' = TenancyConfidence(a_text', topic, location)
    /\ UNCHANGED <<a_pc, a_call, a_nparts, location, image_data, topic, detected, dlen,
                   response>>
    /\ UNCHANGED rvars
    /\ UNCHANGED cvars

\* IssueDetectionAgent.process_request(text, image_data)
issue_process_request ==
    /\ a_pc = "idle"
    /\ location = NoneStr
    /\ LET r == IssueProcessRequest(a_text, image_data)
       IN  /\ detected' = r.detected
           /\ response' = r.response
           /\ confidence' = r.confidence
    /\ dlen' = Len(a_text)
    /\ a_pc' = "done"
    /\ a_call' = "issue.process_request"
    /\ UNCHANGED <<a_text, a_nparts, location, image_data, topic, a_prev>>
    /\ UNCHANGED rvars
    /\ UNCHANGED cvars

\* IssueDetectionAgent._calculate_confidence(detected_issues, description_length)
issue_calculate_confidence(lst, n) ==
    /\ a_pc = "idle"
    /\ a_text = ""
    /\ location = NoneStr
    /\ image_data = "None"
    /\ detected' = lst
    /\ dlen' = n
    /\ response' = ""
    /\ confidence' = IssueConfidence(lst, n)
    /\ a_pc' = "done"
    /\ a_call' = "issue._calculate_confidence"
    /\ UNCHANGED <<a_text, a_nparts, location, image_data, topic, a_prev>>
    /\ UNCHANGED rvars
    /\ UNCHANGED cvars

\* The same call again after the primary issue gained one keyword match.
issue_calculate_confidence_more ==
    /\ a_pc = "done"
    /\ a_call = "issue._calculate_confidence"
    /\ ~a_prev.valid
    /\ Len(detected) > 0
    /\ detected[1].keywords_matched < MaxMatches
    /\ a_prev' = LastAgentCall
    /\ detected' = [detected EXCEPT ![1] = IssueEntry(1, detected[1].keywords_matched + 1)]
    /\ confidence' = IssueConfidence(detected', dlen)
    /\ UNCHANGED <<a_pc, a_call, a_text, a_nparts, location, image_data, topic, dlen,
                   response>>
    /\ UNCHANGED rvars
    /\ UNCHANGED cvars

\* The caller starts over with a new request.
NewCall ==
    /\ a_pc = "done"
    /\ a_pc' = "idle"
    /\ a_call' = ""
    /\ a_text' = ""
    /\ a_nparts' = 0
    /\ location' = NoneStr
    /\ image_data' = "None"
    /\ topic' = NoTopic
    /\ detected' = <<>>
    /\ dlen' = 0
    /\ response' = ""
    /\ confidence' = NoConfidence
    /\ a_prev' = NoCall
    /\ UNCHANGED rvars
    /\ UNCHANGED cvars

AgentsNext ==
    \/ \E p \in Parts : WriteText(p)
    \/ \E l \in Locations : SetLocation(l)
    \/ \E img \in ImageValues : SetImage(img)
    \/ tenancy_process_request
    \/ \E i \in 1..Len(legal_database) : tenancy_calculate_confidence(legal_database[i].topic)
    \/ \E i \in 1..Len(legal_database) :
           \E k \in Range(legal_database[i].keywords) : tenancy_calculate_confidence_more(k)
    \/ issue_process_request
    \/ \E lst \in IssueLists : \E n \in DescriptionLengths : issue_calculate_confidence(lst, n)
    \/ issue_calculate_confidence_more
    \/ NewCall

SpecAgents == Init /\ [][AgentsNext]_vars

-----------------------------------------------------------------------------
(* State machine of the conversation manager *)

\* messages handed to add_message
Messages == {
    Message("user", "Eviction over unpaid rent", NoneStr),
    Message("bot", "hello", Str("")),
    Message("user", "mold", Str("agent1")),
    Message("bot", "rent and deposit", Str("agent2")),
    Message("bot", "mold and a leak", Str("agent1")),
    Message("bot", "rent", Str("router")) }

\* values of the count argument of get_recent_messages
Counts == 0..MaxMessages

\* ConversationManager.add_message(message_type, content, agent)
add_message(msg) ==
    /\ m_pc = "open"
    /\ c_pc = "await"
    /\ Len(m_history) < MaxMessages
    /\ m_history' = Append(m_history, msg)
    /\ LET u == UpdateContext(m_context, heap, msg)
       IN  /\ m_context' = u.context
           /\ heap' = u.heap
    /\ m_op' = "add_message"
    /\ UNCHANGED <<m_pc, snap, snap0, recent, recent_count, analysis, nclears, c_pc, nturns>>
    /\ UNCHANGED rvars
    /\ UNCHANGED avars

\* ConversationManager.get_context()
get_context ==
    /\ m_pc = "open"
    /\ c_pc = "await"
    /\ ~snap.taken
    /\ snap' = [taken |-> TRUE, ctx |-> GetContext(m_context)]
    /\ snap0' = View(m_context, heap)
    /\ UNCHANGED <<m_context, heap, m_history, m_op, m_pc, recent, recent_count, analysis,
                   nclears, c_pc, nturns>>
    /\ UNCHANGED rvars
    /\ UNCHANGED avars

\* the heap once the dict ctx is dropped: its list, the newest of the heap,
\* goes with it unless the dict returned by get_context holds the same list
Collect(hp, ctx, returned) ==
    IF ctx.topics # 0 /\ ~(returned.taken /\ returned.ctx.topics = ctx.topics)
    THEN SubSeq(hp, 1, Len(hp) - 1)
    ELSE hp

\* variant: only the history is reset
clear_context_KeepsContext ==
    /\ m_pc = "open"
    /\ nclears < MaxClears
    /\ m_history' = <<>>
    /\ m_op' = "clear_context"
    /\ nclears' = nclears + 1
    /\ UNCHANGED <<m_context, heap, m_pc, snap, snap0, recent, recent_count, analysis, c_pc,
                   nturns>>
    /\ UNCHANGED rvars
    /\ UNCHANGED avars

\* ConversationManager.clear_context(); the list of the old context is
\* dropped from the heap unless the returned dict still holds it
clear_context ==
    /\ m_pc = "open"
    /\ nclears < MaxClears
    /\ m_context' = EmptyMapping
    /\ m_history' = <<>>
    /\ heap' = Collect(heap, m_context, snap)
    /\ m_op' = "clear_context"
    /\ nclears' = nclears + 1
    /\ UNCHANGED <<m_pc, snap, snap0, recent, recent_count, analysis, c_pc, nturns>>
    /\ UNCHANGED rvars
    /\ UNCHANGED avars

\* ConversationManager.get_recent_messages(count)
get_recent_messages(count) ==
    /\ m_pc = "open"
    /\ c_pc = "await"
    /\ ~snap.taken
    /\ recent' = RecentMessages(m_history, count)
    /\ recent_count' = count
    /\ m_pc' = "observed"
    /\ UNCHANGED <<m_context, heap, m_history, m_op, snap, snap0, analysis, nclears, c_pc,
                   nturns>>
    /\ UNCHANGED rvars
    /\ UNCHANGED avars

\* AgentRouter.analyze_conversation_flow(messages) on the manager's history
analyze_conversation_flow ==
    /\ m_pc = "open"
    /\ c_pc = "await"
    /\ ~snap.taken
    /\ analysis' = AnalyzeConversationFlow(m_history)
    /\ m_pc' = "observed"
    /\ UNCHANGED <<m_context, heap, m_history, m_op, snap, snap0, recent, recent_count,
                   nclears, c_pc, nturns>>
    /\ UNCHANGED rvars
    /\ UNCHANGED avars

\* A new manager is constructed.
NewSession ==
    /\ m_pc = "observed"
    /\ m_context' = EmptyMapping
    /\ heap' = <<>>
    /\ m_history' = <<>>
    /\ m_op' = ""
    /\ m_pc' = "open"
    /\ snap' = NoSnap
    /\ snap0' = View(EmptyMapping, <<>>)
    /\ recent' = <<>>
    /\ recent_count' = NoCount
    /\ analysis' = NoAnalysis
    /\ nclears' = 0
    /\ UNCHANGED <<c_pc, nturns>>
    /\ UNCHANGED rvars
    /\ UNCHANGED avars

ManagerNext ==
    \/ \E msg \in Messages : add_message(msg)
    \/ get_context
    \/ clear_context
    \/ \E count \in Counts : get_recent_messages(count)
    \/ analyze_conversation_flow
    \/ NewSession

SpecManager == Init /\ [][ManagerNext]_vars

-----------------------------------------------------------------------------
(* State machine of a conversation: each turn is routed with the manager's *)
(* context and its result is recorded with add_message                     *)

\* texts of the turns
ChatTexts == {"maintenance", "rent", "floor", "show me"}

\* The user sends a text; the caller may record it with add_message('user', text).
chat_user(f, recorded) ==
    /\ c_pc = "await"
    /\ m_pc = "open"
    /\ nturns < MaxTurns
    /\ text' = f
    /\ has_image' = FALSE
    /\ prev' = (IF nturns = 0 THEN NoPrev ELSE LastCall)
    /\ pc' = "idle"
    /\ IF recorded
       THEN LET msg == Message("user", f, NoneStr)
                u   == UpdateContext(m_context, heap, msg)
            IN  /\ m_history' = Append(m_history, msg)
                /\ m_context' = u.context
                /\ heap' = u.heap
                /\ m_op' = "add_message"
       ELSE UNCHANGED <<m_history, m_context, heap, m_op>>
    /\ c_pc' = "said"
    /\ UNCHANGED <<m_pc, snap, snap0, recent, recent_count, analysis, nclears, nturns>>
    /\ UNCHANGED <<tenancy_keywords, issue_keywords, context, nfrags, tenancy_score,
                   issue_score, result, clarification>>
    /\ UNCHANGED avars

\* route_request(text, False, manager.get_context())
chat_route ==
    /\ c_pc = "said"
    /\ context' = AsContextArgument(GetContext(m_context), heap)
    /\ LET r == RouteRequest(tenancy_keywords, issue_keywords, text, has_image, context')
       IN  /\ tenancy_score' = r.tenancy_score
           /\ issue_score' = r.issue_score
           /\ result' = r.result
    /\ pc' = "routed"
    /\ c_pc' = "routed"
    /\ UNCHANGED <<tenancy_keywords, issue_keywords, text, has_image, nfrags, prev,
                   clarification>>
    /\ UNCHANGED <<m_context, heap, m_history, m_op, m_pc, snap, snap0, recent, recent_count,
                   analysis, nclears, nturns>>
    /\ UNCHANGED avars

\* add_message('bot', response, agent=result)
chat_record ==
    /\ c_pc = "routed"
    /\ LET msg == Message("bot", "", Str(result))
           u   == UpdateContext(m_context, heap, msg)
       IN  /\ m_history' = Append(m_history, msg)
           /\ m_context' = u.context
           /\ heap' = u.heap
    /\ m_op' = "add_message"
    /\ c_pc' = "await"
    /\ nturns' = nturns + 1
    /\ UNCHANGED <<m_pc, snap, snap0, recent, recent_count, analysis, nclears>>
    /\ UNCHANGED rvars
    /\ UNCHANGED avars

ChatNext ==
    \/ \E f \in ChatTexts : \E recorded \in BOOLEAN : chat_user(f, recorded)
    \/ chat_route
    \/ chat_record
    \/ clear_context

SpecChat == Init /\ [][ChatNext]_vars

-----------------------------------------------------------------------------
(* Properties of route_request *)

\* route_request has returned from a call that analysed the text
TextRouted == pc = "routed" /\ ~has_image

\* the two scores tie at a non-zero value
NonZeroTie == tenancy_score = issue_score /\ issue_score > 0

\* the last call was route_request_more: the text of the call before lacks the added keyword
KeywordAdded == pc = "routed" /\ prev.valid /\ prev.text # text

\* C1: whenever has_image is true, route_request returns 'agent1', whatever the
\* text and the context are.
C1_ImageForcesIssueDetection ==
    (pc = "routed" /\ has_image) => result = "agent1"

\* an image came with a text whose tenancy score dominates and a context that
\* names agent2
C1_Witness ==
    /\ pc = "routed" /\ has_image /\ result = "agent1"
    /\ text = "Can my landlord evict me without notice?"
    /\ context = WithLastAgent("agent2", <<>>)
    /\ TenancyScore(tenancy_keywords, Lower(text)) > IssueScore(issue_keywords, Lower(text))

\* C2: without an image and with unequal scores the larger score decides:
\* 'agent2' when the tenancy score is larger, 'agent1' when the issue score is
\* larger; the context plays no part.
C2_LargerScoreDecides ==
    (TextRouted /\ tenancy_score # issue_score) =>
        result = (IF tenancy_score > issue_score THEN "agent2" ELSE "agent1")

\* the tenancy score wins although the context names agent1
C2_Witness ==
    /\ TextRouted /\ tenancy_score > issue_score /\ issue_score > 0
    /\ context = WithLastAgent("agent1", <<>>)
    /\ result = "agent2"

\* C3: without an image, a text that matches nothing (both scores 0) is routed
\* to 'router', also when the context names a last agent.
C3_NoMatchClarifies ==
    (TextRouted /\ tenancy_score = 0 /\ issue_score = 0) => result = "router"

\* the empty text with a context that names agent1
C3_Witness ==
    /\ TextRouted /\ text = "" /\ tenancy_score = 0 /\ issue_score = 0
    /\ context = WithLastAgent("agent1", <<>>)
    /\ result = "router"

\* C4: on a non-zero tie without an image, route_request returns
\* context['last_agent'] as it is when the context has that key, and 'router'
\* when no context is given.
C4_TieIsSticky ==
    (TextRouted /\ NonZeroTie) =>
        /\ (context.kind = "dict" /\ "last_agent" \in context.keys) => result = context.last_agent
        /\ context = NoneContext => result = "router"

\* a tie routed to agent2 because the context names agent2
C4_Witness ==
    /\ TextRouted /\ NonZeroTie
    /\ context = WithLastAgent("agent2", <<>>)
    /\ result = "agent2"

\* C5: the value returned by route_request is one of the three categories
\* 'agent1', 'agent2', 'router', for every text, has_image and context.
C5_ResultIsCategory ==
    pc = "routed" => result \in Categories

\* position of a category in the order agent2 < router < agent1
Rank(a) == CASE a = "agent2" -> 0 [] a = "router" -> 1 [] a = "agent1" -> 2

\* C6 as stated: adding one more distinct issue keyword never decreases
\* issue_score and never moves the decision toward TenancyFAQ in the order
\* agent2 < router < agent1.
C6_Original ==
    (KeywordAdded /\ result \in Categories /\ prev.result \in Categories) =>
        /\ issue_score >= prev.issue_score
        /\ Rank(result) >= Rank(prev.result)

\* C6 amended: adding one more distinct issue keyword never decreases
\* issue_score; when the addition leaves tenancy_score unchanged, the decision
\* is unchanged, or was agent2 before, or becomes agent1, so that within the
\* three categories it never moves toward TenancyFAQ.
C6_MonotoneWhenTenancyUnchanged ==
    KeywordAdded =>
        /\ issue_score >= prev.issue_score
        /\ tenancy_score = prev.tenancy_score =>
              /\ result = prev.result \/ prev.result = "agent2" \/ result = "agent1"
              /\ (result \in Categories /\ prev.result \in Categories) =>
                    Rank(result) >= Rank(prev.result)

\* the added keyword turned a tenancy decision into a tie that the context
\* resolved to 'router'
C6_Witness ==
    /\ KeywordAdded /\ tenancy_score = prev.tenancy_score
    /\ issue_score > prev.issue_score
    /\ prev.result = "agent2" /\ result = "router"
    /\ context = WithLastAgent("router", <<>>)

\* C7: with a context that is None, an empty dict, or a dict without the key
\* last_agent, route_request raises nothing: a non-zero tie gives 'router' and
\* every other case gives what the scores alone decide.
C7_NoStickinessSignal ==
    (TextRouted /\ "last_agent" \notin context.keys) =>
        /\ result \notin Exceptions
        /\ result = (IF tenancy_score > issue_score THEN "agent2"
                     ELSE IF issue_score > tenancy_score THEN "agent1"
                     ELSE "router")

\* a non-zero tie with context None
C7_Witness ==
    /\ TextRouted /\ NonZeroTie
    /\ context = NoneContext
    /\ result = "router"

\* C8: no call of the router changes the context it was given: the keys,
\* last_agent and topics are the same after the call as before.
C8_ContextUnchanged ==
    [][pc' = "routed" => context' = context]_vars

\* the sticky branch has run on a context with both keys
C8_Witness ==
    /\ TextRouted /\ NonZeroTie
    /\ context = WithLastAgent("agent1", <<>>)
    /\ result = "agent1"
    /\ prev.valid /\ prev.context = context

KeywordsPresent(keywords, text_lower) ==
    Cardinality({i \in 1..Len(keywords) : Contains(keywords[i], text_lower)})

\* number of patterns of the list that match the lowercased text
PatternsMatching(patterns, text_lower) ==
    Cardinality({i \in 1..Len(patterns) : Search(patterns[i], text_lower)})

\* C10: the score of a category is the number of its keywords that occur in
\* the lowercased text (each counted once) plus twice the number of its
\* patterns that match it; both scores of the empty text are 0.
C10_ScoreFormula ==
    TextRouted =>
        LET text_lower == Lower(text)
        IN  /\ tenancy_score = KeywordsPresent(tenancy_keywords, text_lower)
                               + 2 * PatternsMatching(tenancy_patterns, text_lower)
            /\ issue_score = KeywordsPresent(issue_keywords, text_lower)
                             + 2 * PatternsMatching(issue_patterns, text_lower)
            /\ text = "" => (tenancy_score = 0 /\ issue_score = 0)

\* a keyword written twice, in two cases, counts once: 'leak' and the pattern
\* leak(ing)? give 3
C10_Witness ==
    /\ TextRouted /\ text = "LEAK leak"
    /\ issue_score = 3 /\ tenancy_score = 0

-----------------------------------------------------------------------------
(* Properties of the specialists *)

\* number of the keywords that occur in the lowercased text
MatchCount(keywords, text_lower) ==
    Cardinality({j \in 1..Len(keywords) : Contains(keywords[j], text_lower)})

\* position of a topic or issue type in its database
IndexOf(database, key) == CHOOSE i \in 1..Len(database) : database[i].topic = key

\* the entry at position w has the largest match count, and no earlier entry has as many
FirstMaximal(database, w, text_lower) ==
    \A i \in 1..Len(database) :
        LET ci == MatchCount(database[i].keywords, text_lower)
            cw == MatchCount(database[w].keywords, text_lower)
        IN  ci <= cw /\ (i < w => ci < cw)

\* no keyword of any entry of the database occurs in the lowercased text
NoKeyword(database, text_lower) ==
    \A i \in 1..Len(database) : MatchCount(database[i].keywords, text_lower) = 0

TenancyReturned == a_pc = "done" /\ a_call = "tenancy.process_request"

IssueReturned == a_pc = "done" /\ a_call = "issue.process_request"

\* C11: the topic _identify_topic returns has the largest keyword-match
\* count, and among several topics with that count it is the first of
\* legal_database.
C11_FirstMaximalTopic ==
    (TenancyReturned /\ topic # NoTopic) =>
        FirstMaximal(legal_database, IndexOf(legal_database, topic), Lower(a_text))

\* a request on which two topics tie has been answered
C11_Witness ==
    /\ TenancyReturned
    /\ topic = "eviction"
    /\ LET tl == Lower(a_text)
       IN  MatchCount(legal_database[1].keywords, tl) = MatchCount(legal_database[5].keywords, tl)

\* C12: the first element of the issue specialist's ranked list is the issue
\* type with the largest keyword-match count, ties going to the earlier type
\* of issue_database, on the text-only path and on the image path.
C12_PrimaryHasHighestCount ==
    (IssueReturned /\ Len(detected) > 0) =>
        FirstMaximal(issue_database, IndexOf(issue_database, detected[1].type), Lower(a_text))

\* C13: a text without any keyword yields no topic (general guidance with
\* confidence 0.6) and an empty list of issues, and a text with a keyword of
\* some topic yields a topic.
C13_NoKeywordNoTopic ==
    /\ TenancyReturned =>
          /\ (topic = NoTopic) <=> NoKeyword(legal_database, Lower(a_text))
          /\ topic = NoTopic => (response = "general_guidance" /\ confidence = 60)
    /\ IssueReturned =>
          (NoKeyword(issue_database, Lower(a_text)) => detected = <<>>)

\* a text without keywords has been answered by the tenancy specialist
C13_Witness ==
    /\ TenancyReturned
    /\ a_text = "hello"
    /\ topic = NoTopic

\* C14: the issue confidence of a non-empty list lies in [0.5, 0.95].
C14_IssueConfidenceInRange ==
    (a_pc = "done" /\ a_call = "issue._calculate_confidence" /\ Len(detected) > 0) =>
        (50 <= confidence /\ confidence <= 95)

\* a call whose adjustments exceed the upper limit has returned
C14_Witness ==
    /\ a_pc = "done"
    /\ a_call = "issue._calculate_confidence"
    /\ Len(detected) > 1
    /\ detected[1].confidence = 95
    /\ dlen > 50
    /\ confidence = 95

\* C15: the tenancy confidence lies in [0.6, 0.95] for every text, topic and
\* location.
C15_TenancyConfidenceInRange ==
    (a_pc = "done" /\ a_call = "tenancy._calculate_confidence") =>
        (60 <= confidence /\ confidence <= 95)

\* a call with more than two matches and a known location has returned
C15_Witness ==
    /\ a_pc = "done"
    /\ a_call = "tenancy._calculate_confidence"
    /\ MatchCount(Lookup(legal_database, topic).keywords, Lower(a_text)) > 2
    /\ location = Str("California")
    /\ confidence = 95

\* the issue confidence did not fall when the primary issue gained a match
IssueMonotone ==
    (/\ a_call = "issue._calculate_confidence"
     /\ a_prev.valid
     /\ Len(detected) = Len(a_prev.detected)
     /\ dlen = a_prev.dlen
     /\ detected[1].keywords_matched >= a_prev.detected[1].keywords_matched)
    => confidence >= a_prev.confidence

KnownRegions == {"california", "new york", "texas", "florida"}

\* C17: the tenancy confidence is 0.8 + a + b clamped to [0.6, 0.95], with
\* a = +0.1 for more than 2 matches of the topic, -0.1 for exactly 1, 0 for
\* 2, and b = +0.05 for a supplied location naming a known region, -0.05 for
\* no location, 0 for a supplied location that names none.
C17_TenancyFormula ==
    (TenancyReturned /\ topic # NoTopic) =>
        LET n == MatchCount(Lookup(legal_database, topic).keywords, Lower(a_text))
            a == IF n > 2 THEN 10 ELSE IF n = 1 THEN 0 - 10 ELSE 0
            b == IF ~StrTruthy(location) THEN 0 - 5
                 ELSE IF \E r \in KnownRegions : Contains(r, Lower(location.s)) THEN 5
                 ELSE 0
        IN  confidence = Min(95, Max(60, 80 + a + b))

\* C18: the confidence of an image request with a detected issue is
\* min(0.95, 0.6 + 0.1 * count of the primary issue) + d + s clamped to
\* [0.5, 0.95], d = +0.1 for a description longer than 50, -0.1 for one
\* shorter than 10, s = +0.05 for more than one detected issue.
C18_IssueFormula ==
    (IssueReturned /\ image_data = "bytes" /\ Len(detected) >= 1) =>
        LET n == MatchCount(Lookup(issue_database, detected[1].type).keywords, Lower(a_text))
            d == IF Len(a_text) > 50 THEN 10 ELSE IF Len(a_text) < 10 THEN 0 - 10 ELSE 0
            s == IF Len(detected) > 1 THEN 5 ELSE 0
        IN  confidence = Min(95, Max(50, Min(95, 60 + 10 * n) + d + s))

\* an image request with a short description and one detected issue has returned
C18_Witness ==
    /\ IssueReturned
    /\ image_data = "bytes"
    /\ Len(detected) = 1
    /\ Len(a_text) < 10
    /\ confidence = 60

\* C19: the fallback confidences are 0.5 (no image, no issue keyword), 0.6
\* (image, no issue keyword), 0.6 (no tenancy topic) and 0.3 (the issue
\* confidence of an empty list).
C19_Fallbacks ==
    /\ (IssueReturned /\ NoKeyword(issue_database, Lower(a_text))) =>
          confidence = (IF image_data = "bytes" THEN 60 ELSE 50)
    /\ (TenancyReturned /\ NoKeyword(legal_database, Lower(a_text))) => confidence = 60
    /\ (a_pc = "done" /\ a_call = "issue._calculate_confidence" /\ detected = <<>>) =>
          confidence = 30

\* a text-only request without issue keywords has returned
C19_Witness ==
    /\ IssueReturned
    /\ image_data # "bytes"
    /\ a_text = "hello"
    /\ response = "general_guidance"
    /\ confidence = 50

\* the severity the indicator lists give a lowercased text
SeverityOf(text_lower) ==
    IF \E w \in severe_indicators : Contains(w, text_lower) THEN "severe"
    ELSE IF \E w \in moderate_indicators : Contains(w, text_lower) THEN "moderate"
    ELSE "minor"

\* C20: every detected issue is 'severe' if the lowercased text has a severe
\* indicator, else 'moderate' if it has a moderate one, else 'minor',
\* whatever its type.
C20_Severity ==
    IssueReturned =>
        \A i \in 1..Len(detected) : detected[i].severity = SeverityOf(Lower(a_text))

\* a text with a severe and a moderate indicator has been classified
C20_Witness ==
    /\ IssueReturned
    /\ Len(detected) > 0
    /\ \E w \in severe_indicators : Contains(w, Lower(a_text))
    /\ \E w \in moderate_indicators : Contains(w, Lower(a_text))
    /\ detected[1].severity = "severe"

-----------------------------------------------------------------------------
(* End-to-end scenario *)

\* C21: 'Can my landlord evict me without notice?' without image and with
\* context None scores at least 4 for tenancy and 0 for issues, is routed to
\* 'agent2', and _identify_topic gives 'eviction' for it.
C21_EvictionScenario ==
    (/\ pc = "routed"
     /\ text = "Can my landlord evict me without notice?"
     /\ ~has_image
     /\ context = NoneContext)
    => /\ tenancy_score >= 4
       /\ issue_score = 0
       /\ result = "agent2"
       /\ IdentifyTopic(text) = "eviction"

\* the scenario's request has been routed
C21_Witness ==
    /\ pc = "routed"
    /\ text = "Can my landlord evict me without notice?"
    /\ ~has_image
    /\ context = NoneContext
    /\ result = "agent2"

-----------------------------------------------------------------------------
(* Properties of the conversation manager and of a conversation *)

\* the scores of the routed turn tie at a non-zero value
TurnTies == c_pc = "routed" /\ tenancy_score = issue_score /\ issue_score > 0

\* positions of the messages of the history that carry a non-empty agent
WithAgent == {i \in 1..Len(m_history) : StrTruthy(m_history[i].agent)}

\* the largest element of a non-empty set of numbers
Last(S) == CHOOSE i \in S : \A j \in S : j <= i

\* C22: when every turn's result is recorded with add_message(agent=result)
\* and the next turn is routed with get_context(), a turn whose scores tie at
\* a non-zero value gets the category of the previous turn, also when user
\* messages without agent were recorded in between (the previous turn's
\* record being still in the history).
C22_StickyAcrossTurns ==
    (TurnTies /\ prev.valid /\ \E i \in WithAgent : m_history[i].type = "bot")
    => result = prev.result

\* a tie has been routed to 'agent2' after a turn routed to 'agent2' and a
\* recorded user message
C22_Witness ==
    /\ TurnTies
    /\ prev.valid
    /\ prev.result = "agent2"
    /\ result = "agent2"
    /\ Len(m_history) > 1
    /\ m_history[Len(m_history)].type = "user"

\* C23: last_agent is the agent of the latest message of the history with a
\* non-empty agent, and the key is absent when the history has none;
\* messages with agent None or '' leave it as it is.
C23_LastAgent ==
    IF WithAgent = {} THEN ~m_context.has_last_agent
    ELSE /\ m_context.has_last_agent
         /\ m_context.last_agent = m_history[Last(WithAgent)].agent.s

\* a message without agent has followed a message with an agent
C23_Witness ==
    /\ Len(m_history) = 2
    /\ m_history[1].agent = Str("agent2")
    /\ m_history[2].agent \in {NoneStr, Str("")}
    /\ m_context.last_agent = "agent2"

\* the manager's list of topics has no duplicate and only tracked topics
TopicsWellFormed ==
    m_context.topics # 0 =>
        LET lst == heap[m_context.topics]
        IN  /\ \A i, j \in 1..Len(lst) : lst[i] = lst[j] => i = j
            /\ Range(lst) \subseteq Range(tracked_topics)

\* s is an initial part of t
IsPrefix(s, t) == Len(s) <= Len(t) /\ SubSeq(t, 1, Len(s)) = s

\* C24: context['topics'] never holds a duplicate or an untracked topic, and
\* while the context is not cleared every step keeps the entries it had, in
\* their order.
C24_TopicsGrow ==
    /\ []TopicsWellFormed
    /\ [][(m_context.topics # 0 /\ m_context'.topics # 0)
            => IsPrefix(heap[m_context.topics], heap'[m_context'.topics])]_vars

\* a content naming known topics has been added twice
C24_Witness ==
    /\ Len(m_history) = 2
    /\ m_history[1].content = m_history[2].content
    /\ m_context.topics # 0
    /\ Len(heap[m_context.topics]) = 2

\* C25: a context returned by get_context keeps the last_agent and the
\* topics it had when it was returned, whatever is called on the manager
\* afterwards.
C25_SnapshotUnchanged ==
    snap.taken => View(snap.ctx, heap) = snap0

\* C26: get_recent_messages(count) returns the last min(count, n) messages
\* of the history in their order, never more than count, for count >= 0.
C26_RecentMessages ==
    (m_pc = "observed" /\ recent_count # NoCount) =>
        LET n == Len(m_history)
            k == Min(recent_count, n)
        IN  /\ Len(recent) = k
            /\ Len(recent) <= recent_count
            /\ \A i \in 1..k : recent[i] = m_history[n - k + i]

\* C27: right after clear_context the context is the empty mapping and the
\* history is empty, and a non-zero tie routed with that context returns
\* 'router' whatever the earlier turns were routed to.
C27_ClearResets ==
    /\ [](m_op = "clear_context" => (m_context = EmptyMapping /\ m_history = <<>>))
    /\ [][(m_op = "clear_context" /\ c_pc = "said" /\ TurnTies')
            => (context' = EmptyDict /\ result' = "router")]_vars

\* a tie has been routed right after clear_context, the turn before having
\* gone to 'agent1'
C27_Witness ==
    /\ TurnTies
    /\ m_op = "clear_context"
    /\ prev.valid
    /\ prev.result = "agent1"
    /\ result = "router"

\* number of the messages of type 'bot' whose agent is a
BotCount(a) ==
    Cardinality({i \in 1..Len(m_history) :
                    m_history[i].type = "bot" /\ m_history[i].agent = Str(a)})

\* position of a category in the order agent1, agent2, router
CategoryOrder == <<"agent1", "agent2", "router">>

\* C30: agent_usage counts the 'bot' messages of each category,
\* total_messages is the length of the list, dominant_agent has a maximal
\* count with ties going to the first of agent1, agent2, router, and
\* conversation_type compares the counts of agent1 and agent2.
C30_ConversationFlow ==
    (m_pc = "observed" /\ analysis # NoAnalysis) =>
        /\ \A a \in Categories : UsageOf(analysis.agent_usage, a) = BotCount(a)
        /\ analysis.total_messages = Len(m_history)
        /\ \A i \in 1..3 :
              /\ BotCount(CategoryOrder[i]) <= BotCount(analysis.dominant_agent)
              /\ (BotCount(CategoryOrder[i]) = BotCount(analysis.dominant_agent))
                    => \E j \in 1..i : analysis.dominant_agent = CategoryOrder[j]
        /\ (analysis.conversation_type = "issue_focused")
              <=> (BotCount("agent1") > BotCount("agent2"))
        /\ (analysis.conversation_type = "tenancy_focused")
              <=> (BotCount("agent2") > BotCount("agent1"))
        /\ (analysis.conversation_type = "mixed")
              <=> (BotCount("agent1") = BotCount("agent2"))

\* a history with one 'bot' message of agent1 and one of agent2 has been analysed
C30_Witness ==
    /\ m_pc = "observed"
    /\ analysis # NoAnalysis
    /\ BotCount("agent1") = 1
    /\ BotCount("agent2") = 1
    /\ analysis.dominant_agent = "agent1"
    /\ analysis.conversation_type = "mixed"

-----------------------------------------------------------------------------
(* Further properties of the issue specialist *)

\* C28: _simulate_image_analysis returns at most 3 issues in non-increasing
\* order of confidence, each with at least one matched keyword and a
\* confidence in [0.7, 0.95], and no issue type twice.
C28_ImageAnalysisShape ==
    (IssueReturned /\ image_data = "bytes") =>
        /\ Len(detected) <= 3
        /\ \A i, j \in 1..Len(detected) :
              /\ i < j => detected[i].confidence >= detected[j].confidence
              /\ detected[i].type = detected[j].type => i = j
        /\ \A i \in 1..Len(detected) :
              /\ detected[i].keywords_matched >= 1
              /\ 70 <= detected[i].confidence
              /\ detected[i].confidence <= 95

\* an image request whose description names four issue types has returned
C28_Witness ==
    /\ IssueReturned
    /\ image_data = "bytes"
    /\ Len(detected) = 3
    /\ Cardinality({i \in 1..Len(issue_database) :
                       MatchCount(issue_database[i].keywords, Lower(a_text)) > 0}) > 3

\* C29: process_request of the issue specialist never returns a confidence
\* below 0.5 (the 0.3 of an empty detection list is not reached), and
\* without an image it returns 0.7 when an issue keyword matches and 0.5
\* otherwise.
C29_ProcessRequestFloor ==
    IssueReturned =>
        /\ confidence >= 50
        /\ image_data # "bytes" =>
              confidence = (IF NoKeyword(issue_database, Lower(a_text)) THEN 50 ELSE 70)

\* an image request that detects no issue has returned
C29_Witness ==
    /\ IssueReturned
    /\ image_data = "bytes"
    /\ a_text = "a tiny mark"
    /\ detected = <<>>
    /\ confidence = 60

====
